---- MODULE Spec2Model ----
(***************************************************************************)
(* Model of github-research-rs: the /process handler (process_user), the   *)
(* /search handler (search), the MongoDB collections they use and the      *)
(* GitHub / Gemini / OpenAI collaborators they call.                       *)
(*                                                                         *)
(* Every .await of a handler is one action: the action is the completion   *)
(* of the awaited call together with the synchronous code that follows it  *)
(* up to the next .await (or the handler's return).  A collaborator call   *)
(* returns one of the outcomes its Rust signature allows; which one is a   *)
(* nondeterministic choice.                                                *)
(*                                                                         *)
(* Strings are modelled by what the handlers look at: a patch by its byte  *)
(* length, formatted text by the tuple of its parts.                       *)
(***************************************************************************)
EXTENDS Integers, Sequences, FiniteSets, TLC

\* src/src/api/process.rs:19
MAX_PATCH_SIZE_BYTES == 50000

\* Bounds of the model.
MaxRuns == 2        \* invocations of /process started in one behaviour
MaxCommits == 2     \* longest commit listing GitHub returns for one repository
MaxSearches == 2    \* invocations of /search started in one behaviour
MaxDocs == 2        \* documents in the store the search specification starts from
MaxConcCommits == 1 \* longest commit listing in the concurrent specification
MaxMixedCommits == 2 \* longest commit listing in the mixed specification
MaxReadmeCalls == 3  \* README cache operations started in one behaviour
MaxEmbeddingCalls == 3 \* embedding cache operations started in one behaviour

NONE == "none"      \* Option::None
UNSET == "unset"    \* upstream data nobody has asked for yet

\* The locals of process.rs:133-219 before the loop body has assigned them.
\* Each stand-in has the type of the values the local takes later.
NoPatch == -1
NoText == <<>>
NoSummary ==
    [languages |-> <<>>, frameworks_libraries |-> <<>>,
     patterns |-> <<>>, specialized_knowledge |-> <<>>]

\* process.rs:31-35  (StatusCode::INTERNAL_SERVER_ERROR, "Internal Server Error")
ErrorResponse == [status |-> 500, body |-> "Internal Server Error"]
\* No response was written.
NoResponse == [written |-> FALSE]

Users == {"alice", "bob"}
SeqUsers == {"alice"}   \* the user of the sequential specification
Oids == {"A", "B"}
\* Patch byte lengths: empty, small, exactly the maximum, one byte over.
PatchLens == {0, 200, MAX_PATCH_SIZE_BYTES, MAX_PATCH_SIZE_BYTES + 1}
\* (owner, name) of the repositories GitHub knows.
RepoKeys == {<<"org", "repo">>, <<"org", "fork">>}
ReadmeContents == {"README"}
ReadmeSummaries == {"readme summary"}
Runs == {1, 2}

\* database.rs CommitSummary values the summarizer may return.
Summaries ==
    { [languages |-> <<"rust">>, frameworks_libraries |-> <<"axum">>,
       patterns |-> <<>>, specialized_knowledge |-> <<>>] }

\* Embedding vectors the embedding model may return.
Vectors == { <<1, 0>>, <<0, 1>> }

VARIABLES
    gh_contributions,   \* GitHub: user -> commitContributionsByRepository
    gh_user_id,         \* GitHub: login -> node id, or NONE for an unknown login
    gh_commits,         \* GitHub: (owner, name) -> commit history (oids)
    gh_patch,           \* GitHub: oid -> <<body length, status>> of the diff request, <<>> if unset
    commits_coll,       \* MongoDB collection "commits": sequence of CommitDocument
    readmes_coll,       \* MongoDB collection "readmes": set of ReadmeDocument
    embeddings_coll,    \* MongoDB collection "embeddings": sequence of cached embeddings
    run,                \* run[r]: the locals of one process_user invocation
    started,            \* number of process_user invocations started
    okBefore,           \* history: users with a completed successful run
    abortedAfterInsert, \* history: users with a run that failed after inserting
    srch,               \* the locals of the search invocation
    searches,           \* number of search invocations started
    readme_calls,       \* history: the calls of the README cache operations
    embedding_calls     \* history: the calls of the embedding cache operations

upstream == <<gh_contributions, gh_user_id, gh_commits, gh_patch>>
db == <<commits_coll, readmes_coll, embeddings_coll>>
hist == <<okBefore, abortedAfterInsert>>
vars == <<gh_contributions, gh_user_id, gh_commits, gh_patch, commits_coll,
          readmes_coll, embeddings_coll, run, started, okBefore, abortedAfterInsert, srch, searches,
          readme_calls, embedding_calls>>

(***************************************************************************)
(* Pure helpers                                                            *)
(***************************************************************************)
RECURSIVE SumCounts(_)
\* process.rs:65  repos.iter().map(|r| r.commit_count).sum()
SumCounts(rs) ==
    IF rs = <<>> THEN 0 ELSE Head(rs).commit_count + SumCounts(Tail(rs))

RECURSIVE SelectContributed(_)
\* github.rs:163-184  keep the contributions with commit_count > 0
SelectContributed(cs) ==
    IF cs = <<>> THEN <<>>
    ELSE IF Head(cs).commit_count > 0
         THEN <<[owner |-> Head(cs).key[1], name |-> Head(cs).key[2],
                 default_branch |-> "main", commit_count |-> Head(cs).commit_count]>>
              \o SelectContributed(Tail(cs))
         ELSE SelectContributed(Tail(cs))

\* process.rs:77  format!("{}/{}", repo.owner, repo.name)
FullName(repo) == <<repo.owner, "/", repo.name>>

\* A text to summarize that leaves the README summary out.
TextPatchOnly(readme_summary, patch) == <<patch>>

\* process.rs:191-196  the text handed to summarize_text
TextToSummarize(readme_summary, patch) ==
    IF readme_summary = NONE
    THEN <<patch>>
    ELSE <<"Repository README Summary:\n", readme_summary,
           "\n\nCommit Changes:\n", patch>>

\* process.rs:208  serde_json::to_string(&summary)
SummaryJson(s) ==
    <<"languages", s.languages, "frameworks_libraries", s.frameworks_libraries,
      "patterns", s.patterns, "specialized_knowledge", s.specialized_knowledge>>

\* The shas of a sequence of CommitDocuments.
Shas(coll) == { coll[i].sha : i \in 1..Len(coll) }

\* Mutant of CommitExistsIn: the existence check never finds the commit.
CommitExistsNever(coll, sha) == FALSE

\* An existence check that looks at the oldest stored document only.
CommitExistsFirstOnly(coll, sha) == coll # <<>> /\ coll[1].sha = sha

\* An existence check that ignores the sha: any stored commit counts.
CommitExistsAny(coll, sha) == coll # <<>>

\* database.rs:90-98  count_documents({sha}) > 0
CommitExistsIn(coll, sha) ==
    Cardinality({ i \in 1..Len(coll) : coll[i].sha = sha }) > 0

\* Mutant of InsertCommitInto: the insert reports success and stores nothing.
InsertCommitLost(coll, doc) == coll

\* An insert written as cache_readme is: replace_one with upsert, filtered by
\* (org, repo).
InsertCommitUpserting(coll, doc) ==
    LET Other(d) == ~(d.org = doc.org /\ d.repo = doc.repo)
    IN  Append(SelectSeq(coll, Other), doc)

\* database.rs:81-87  insert_one: the collection has no unique index on sha
InsertCommitInto(coll, doc) == Append(coll, doc)

\* A cache lookup that never finds the document.
CachedReadmeNever(coll, owner, repo) == {}

\* database.rs:173-187  find_one({owner, repo})
CachedReadme(coll, owner, repo) ==
    { d \in coll : d.owner = owner /\ d.repo = repo }

\* A cache write that inserts a new document whatever the collection holds.
CacheReadmeAppending(coll, doc) == coll \cup {doc}

\* database.rs:190-202  replace_one({owner, repo}, readme).upsert(true)
CacheReadmeInto(coll, doc) ==
    { d \in coll : ~(d.owner = doc.owner /\ d.repo = doc.repo) } \cup {doc}

RECURSIVE SeqsUpTo(_, _)
\* All sequences over S of length at most n.
SeqsUpTo(S, n) ==
    IF n = 0 THEN { <<>> }
    ELSE LET shorter == SeqsUpTo(S, n - 1)
         IN  shorter \cup { Append(s, x) : s \in shorter, x \in S }

\* Responses of the contributions query: at most one entry per repository,
\* each with a totalCount (0 when the field is missing, github.rs:166-168).
ContributionLists ==
    { cs \in SeqsUpTo([key : RepoKeys, commit_count : {0, 1}], Cardinality(RepoKeys)) :
        \A i, j \in 1..Len(cs) : i # j => cs[i].key # cs[j].key }

CommitListings == SeqsUpTo(Oids, MaxCommits)

(***************************************************************************)
(* process_user                                                            *)
(***************************************************************************)
IdleRun ==
    [pc |-> "idle", user |-> NONE, repos |-> <<>>, ri |-> 0, author_id |-> NONE,
     commits |-> <<>>, ci |-> 0, patch |-> NoPatch, readme_content |-> NONE,
     text_to_summarize |-> NoText, summary |-> NoSummary, summary_json |-> NoText,
     embedding |-> NoText, total_expected |-> 0, total_processed |-> 0,
     repositories |-> <<>>, outcome |-> NONE, response |-> NoResponse,
     \* history of this invocation
     calls |-> <<>>, failed |-> NONE, inserted |-> <<>>, store0 |-> <<>>,
     rerun |-> FALSE, resumed |-> FALSE,
     \* history: how the README access of the current commit went
     readme_result |-> NONE,
     \* history: the README cache when the invocation started
     readmes0 |-> {},
     \* history: why get_commit_patch returned Err, if it did
     patch_failure |-> NONE]

\* The repository and the commit the loops of process.rs:75 and :116 are at.
Repo(s) == s.repos[s.ri]
Oid(s) == s.commits[s.ci]

\* The run with one more collaborator call in its log.
Called(s, op) == [s EXCEPT !.calls = Append(@, op)]

\* process.rs:63,83,100,125,142,170,184,205,219,239  `?` on an Err, and
\* process.rs:31-35  AppError::into_response
Failed(s, op) ==
    [s EXCEPT !.pc = "done", !.outcome = "error", !.failed = op,
              !.response = ErrorResponse]

\* A panic inside the handler: the task unwinds, no response is produced.
Panicked(s, op) ==
    [s EXCEPT !.pc = "done", !.outcome = "panic", !.failed = op,
              !.response = NoResponse]

\* process.rs:245-253  Ok(Json(ProcessUserResponse {..}))
Returned(s) ==
    [s EXCEPT !.pc = "done", !.outcome = "ok",
              !.response = [total_expected |-> s.total_expected,
                            total_processed |-> s.total_processed,
                            repositories |-> s.repositories]]

\* A loop head that moves to the next repository without recording it.
EnterRepoUnlisted(s, i) ==
    IF i <= Len(s.repos)
    THEN [s EXCEPT !.ri = i, !.ci = 0, !.commits = <<>>, !.author_id = NONE,
                   !.pc = "get_user_id"]
    ELSE Returned([s EXCEPT !.ri = 0, !.ci = 0, !.commits = <<>>, !.author_id = NONE])

\* process.rs:75-84  the head of `for repo in repos`: the next repository, if
\* any, is pushed to `repositories` and its identity resolution is issued.
EnterRepo(s, i) ==
    IF i <= Len(s.repos)
    THEN [s EXCEPT !.ri = i, !.ci = 0, !.commits = <<>>, !.author_id = NONE,
                   !.repositories = Append(@, FullName(s.repos[i])),
                   !.pc = "get_user_id"]
    ELSE Returned([s EXCEPT !.ri = 0, !.ci = 0, !.commits = <<>>, !.author_id = NONE])

\* process.rs:116-125  the head of `for commit in commits` (also reached by
\* each `continue`): the next commit's existence check, or the next repository.
EnterCommit(s, i) ==
    LET t == [s EXCEPT !.patch = NoPatch, !.readme_content = NONE,
                       !.readme_result = NONE,
                       !.text_to_summarize = NoText, !.summary = NoSummary,
                       !.summary_json = NoText, !.embedding = NoText]
    IN  IF i <= Len(s.commits)
        THEN [t EXCEPT !.ci = i, !.pc = "commit_exists"]
        ELSE EnterRepo(t, s.ri + 1)

\* History kept when an invocation ends.
NoteEnd(s) ==
    /\ okBefore' = IF s.outcome = "ok" THEN okBefore \cup {s.user} ELSE okBefore
    /\ abortedAfterInsert' =
           IF s.outcome # "ok" /\ s.inserted # <<>>
           THEN abortedAfterInsert \cup {s.user} ELSE abortedAfterInsert

\* process.rs:54-63  the handler is entered and discovery is issued.
Start(r, u) ==
    /\ run[r].pc \in {"idle", "done"}
    /\ started < MaxRuns
    /\ started' = started + 1
    /\ run' = [run EXCEPT ![r] =
                 [IdleRun EXCEPT !.pc = "get_user_contributed_repos", !.user = u,
                                 !.store0 = commits_coll,
                                 !.readmes0 = readmes_coll,
                                 !.rerun = (u \in okBefore),
                                 !.resumed = (u \in abortedAfterInsert)]]
    /\ UNCHANGED <<upstream, db, hist, srch, searches, readme_calls, embedding_calls>>

\* process.rs:59-77 with github.rs:146-187
GetUserContributedRepos(r) ==
    /\ run[r].pc = "get_user_contributed_repos"
    /\ LET u == run[r].user
           s == Called(run[r], <<"get_user_contributed_repos", u>>)
       IN  \/ /\ run' = [run EXCEPT ![r] = Failed(s, "get_user_contributed_repos")]
              /\ NoteEnd(run'[r])
              /\ UNCHANGED gh_contributions
           \/ \E cs \in (IF gh_contributions[u] = UNSET
                         THEN ContributionLists ELSE {gh_contributions[u]}) :
                /\ gh_contributions' = [gh_contributions EXCEPT ![u] = cs]
                /\ LET repos == SelectContributed(cs)
                   IN  run' = [run EXCEPT ![r] =
                                 EnterRepo([s EXCEPT !.repos = repos,
                                                     !.total_expected = SumCounts(repos),
                                                     !.total_processed = 0,
                                                     !.repositories = <<>>], 1)]
                /\ NoteEnd(run'[r])
    /\ UNCHANGED <<gh_user_id, gh_commits, gh_patch, db, started, srch, searches, readme_calls, embedding_calls>>

\* process.rs:79-84 with github.rs:52-68
GetUserId(r) ==
    /\ run[r].pc = "get_user_id"
    /\ LET u == run[r].user
           s == Called(run[r], <<"get_user_id", u>>)
       IN  \/ /\ run' = [run EXCEPT ![r] = Failed(s, "get_user_id")]
           \/ /\ run' = [run EXCEPT ![r] =
                           IF gh_user_id[u] = NONE
                           THEN Failed(s, "get_user_id")        \* ok_or_else
                           ELSE [s EXCEPT !.author_id = gh_user_id[u],
                                          !.pc = "get_commits"]]
    /\ NoteEnd(run'[r])
    /\ UNCHANGED <<upstream, db, started, srch, searches, readme_calls, embedding_calls>>

\* process.rs:86-125 with github.rs:70-98
GetCommits(r) ==
    /\ run[r].pc = "get_commits"
    /\ LET k == <<Repo(run[r]).owner, Repo(run[r]).name>>
           s == Called(run[r], <<"get_commits", k>>)
       IN  \/ /\ run' = [run EXCEPT ![r] = Failed(s, "get_commits")]
              /\ UNCHANGED gh_commits
           \/ \E cs \in (IF gh_commits[k] = UNSET
                         THEN CommitListings ELSE {gh_commits[k]}) :
                /\ gh_commits' = [gh_commits EXCEPT ![k] = cs]
                /\ run' = [run EXCEPT ![r] =
                             IF cs = <<>>
                             THEN EnterRepo(s, s.ri + 1)        \* continue
                             ELSE EnterCommit(
                                    [s EXCEPT !.commits = cs,
                                              !.total_processed = @ + Len(cs)], 1)]
    /\ NoteEnd(run'[r])
    /\ UNCHANGED <<gh_contributions, gh_user_id, gh_patch, db, started, srch, searches, readme_calls, embedding_calls>>

\* process.rs:119-130 with database.rs:90-98
CommitExists(r) ==
    /\ run[r].pc = "commit_exists"
    /\ LET s == Called(run[r], <<"commit_exists", Oid(run[r])>>)
       IN  \/ run' = [run EXCEPT ![r] = Failed(s, "commit_exists")]
           \/ run' = [run EXCEPT ![r] =
                        IF CommitExistsIn(commits_coll, Oid(s))
                        THEN EnterCommit(s, s.ci + 1)           \* continue
                        ELSE [s EXCEPT !.pc = "get_commit_patch"]]
    /\ NoteEnd(run'[r])
    /\ UNCHANGED <<upstream, db, started, srch, searches, readme_calls, embedding_calls>>

\* Mutant of TooLarge: the size gate is missing.
TooLargeNever(patch) == FALSE

\* Mutant of TooLarge: the comparison is off by one.
TooLargeOffByOne(patch) == patch >= MAX_PATCH_SIZE_BYTES

\* process.rs:145  patch.len() > MAX_PATCH_SIZE_BYTES
TooLarge(patch) == patch > MAX_PATCH_SIZE_BYTES

\* Mutant of IsEmpty: the emptiness gate is missing.
IsEmptyNever(patch) == FALSE

\* process.rs:155  patch.is_empty()
IsEmpty(patch) == patch = 0

\* HTTP statuses of the answer to the diff request: a success, a client
\* error, a server error.
PatchStatuses == {200, 404, 500}

\* The answers drawn when a diff is first requested: successes.  Answers with
\* other statuses are those InitPatch starts from.
LazyPatchResponses == { <<p, 200>> : p \in PatchLens }

\* A status check that also rejects client errors.
IsClientOrServerError(status) == status >= 400 /\ status <= 599

\* github.rs:122  response.status().is_server_error()
IsServerError(status) == status >= 500 /\ status <= 599

\* process.rs:133-158 with github.rs:100-143.  The request or the reading of
\* the body fails (github.rs:120, 123, 128-131), or an answer arrives: a server
\* error makes the call fail (github.rs:122-125), the body of any other answer
\* is the patch.
GetCommitPatch(r) ==
    /\ run[r].pc = "get_commit_patch"
    /\ LET o == Oid(run[r])
           s == Called(run[r], <<"get_commit_patch", o>>)
       IN  \/ /\ run' = [run EXCEPT ![r] =
                           Failed([s EXCEPT !.patch_failure = "transport"],
                                  "get_commit_patch")]
              /\ UNCHANGED gh_patch
           \/ \E resp \in (IF gh_patch[o] = <<>> THEN LazyPatchResponses
                            ELSE {gh_patch[o]}) :
                /\ gh_patch' = [gh_patch EXCEPT ![o] = resp]
                /\ run' = [run EXCEPT ![r] =
                             IF IsServerError(resp[2])
                             THEN Failed([s EXCEPT !.patch_failure = "server_error"],
                                         "get_commit_patch")
                             ELSE IF TooLarge(resp[1]) THEN EnterCommit(s, s.ci + 1)
                             ELSE IF IsEmpty(resp[1]) THEN EnterCommit(s, s.ci + 1)
                             ELSE [s EXCEPT !.patch = resp[1], !.pc = "get_readme"]]
    /\ NoteEnd(run'[r])
    /\ UNCHANGED <<gh_contributions, gh_user_id, gh_commits, db, started, srch, searches, readme_calls, embedding_calls>>

\* github.rs:267-302  what can go wrong between the request for the README and
\* its decoded content: the request is not answered, the status is not a
\* success, the body is not JSON, it has no "content" string, the content is
\* not base64, the decoded bytes are not UTF-8.
ReadmeFailures ==
    {"transport", "status", "body", "no_content", "bad_base64", "utf8"}

\* github.rs:277 `.send().await?`, :287 `response.json().await?` and :296
\* `String::from_utf8(bytes).wrap_err(..)?` return Err; the other three
\* failures are logged and return Ok(None).
ReadmeFailureIsErr(cause) == cause \in {"transport", "body", "utf8"}

\* What a README access did, as far as the cache and GitHub can tell: it
\* stopped at the cache lookup (an error or a hit), or it went on to fetch
\* from GitHub, and the fetch failed, found no README or had its content cached.
ReadmeAccess(result) ==
    IF result \in {"lookup_err", "hit"} THEN result
    ELSE IF result \in {"fetched", "cache_err"} THEN "fetch_cached"
    ELSE IF ReadmeFailureIsErr(result) THEN "fetch_err"
    ELSE "fetch_none"

\* process.rs:161-196 with github.rs:253-314.  The access either fails (Err),
\* yields no README (None) or yields the content, cached or fetched and then
\* cached.  The log entry holds (history) what the access did.
GetReadme(r) ==
    /\ run[r].pc = "get_readme"
    /\ LET repo == Repo(run[r])
           Accessed(result) ==
               [Called(run[r], <<"get_readme", <<repo.owner, repo.name>>,
                                 ReadmeAccess(result)>>)
                   EXCEPT !.readme_result = result]
           cached == CachedReadme(readmes_coll, repo.owner, repo.name)
       IN  \/ \* github.rs:260  get_cached_readme returns Err
              /\ run' = [run EXCEPT ![r] = Failed(Accessed("lookup_err"), "get_readme")]
              /\ UNCHANGED readmes_coll
           \/ \* github.rs:260-263  cache hit
              /\ cached # {}
              /\ \E d \in cached :
                   run' = [run EXCEPT ![r] =
                             [Accessed("hit") EXCEPT !.readme_content = d.content,
                                                     !.pc = "summarize_readme"]]
              /\ UNCHANGED readmes_coll
           \/ \* github.rs:267-302  the fetch or the decoding fails
              /\ cached = {}
              /\ \E cause \in ReadmeFailures :
                   run' = [run EXCEPT ![r] =
                             IF ReadmeFailureIsErr(cause)
                             THEN Failed(Accessed(cause), "get_readme")
                             ELSE [Accessed(cause) EXCEPT
                                      !.text_to_summarize =
                                          TextToSummarize(NONE, run[r].patch),
                                      !.pc = "summarize_text"]]
              /\ UNCHANGED readmes_coll
           \/ \* github.rs:304-313  decoded and cached
              /\ cached = {}
              /\ \E c \in ReadmeContents :
                   /\ readmes_coll' = CacheReadmeInto(readmes_coll,
                          [owner |-> repo.owner, repo |-> repo.name, content |-> c])
                   /\ \/ run' = [run EXCEPT ![r] =
                                   [Accessed("fetched") EXCEPT !.readme_content = c,
                                                               !.pc = "summarize_readme"]]
                      \/ \* cache_readme returns Err after the write was applied
                         run' = [run EXCEPT ![r] =
                                   Failed(Accessed("cache_err"), "get_readme")]
    /\ NoteEnd(run'[r])
    /\ UNCHANGED <<upstream, commits_coll, embeddings_coll, started, srch, searches, readme_calls, embedding_calls>>

\* process.rs:173-196 with ml.rs:193-266
SummarizeReadme(r) ==
    /\ run[r].pc = "summarize_readme"
    /\ LET s == Called(run[r], <<"summarize_readme", run[r].readme_content>>)
       IN  \/ run' = [run EXCEPT ![r] = Failed(s, "summarize_readme")]
           \/ \E rs \in ReadmeSummaries :
                run' = [run EXCEPT ![r] =
                          [s EXCEPT !.text_to_summarize = TextToSummarize(rs, s.patch),
                                    !.pc = "summarize_text"]]
    /\ NoteEnd(run'[r])
    /\ UNCHANGED <<upstream, db, started, srch, searches, readme_calls, embedding_calls>>

\* process.rs:199-210 with ml.rs:100-190
SummarizeText(r) ==
    /\ run[r].pc = "summarize_text"
    /\ LET s == Called(run[r], <<"summarize_text", Oid(run[r]), run[r].text_to_summarize>>)
       IN  \/ run' = [run EXCEPT ![r] = Failed(s, "summarize_text")]
           \/ \E sm \in Summaries :
                run' = [run EXCEPT ![r] =
                          [s EXCEPT !.summary = sm, !.summary_json = SummaryJson(sm),
                                    !.pc = "get_embedding"]]
    /\ NoteEnd(run'[r])
    /\ UNCHANGED <<upstream, db, started, srch, searches, readme_calls, embedding_calls>>

\* ml.rs:69-97  the outcomes of get_embedding: Err (transport failure or a body
\* that is not an OpenAIEmbeddingResponse), a panic at `response.data[0]` when
\* the response parses but holds no embedding, or Ok(the first embedding).
EmbeddingOutcomes ==
    { <<"err">>, <<"panic">> } \cup { <<"ok", v>> : v \in Vectors }

\* An embedding input that carries the patch along with the summary.
EmbeddingInputWithPatch(s) == <<s.summary_json, s.patch>>

\* process.rs:213-215  get_embedding(&summary_json)
EmbeddingInput(s) == s.summary_json

\* process.rs:213-233.  The log entry holds the text handed to the embedding
\* model and (history) the summary that summarize_text had returned.
GetEmbedding(r) ==
    /\ run[r].pc = "get_embedding"
    /\ LET s == Called(run[r], <<"get_embedding", Oid(run[r]),
                                 EmbeddingInput(run[r]), run[r].summary>>)
       IN  \E e \in EmbeddingOutcomes :
             run' = [run EXCEPT ![r] =
                       IF e[1] = "err" THEN Failed(s, "get_embedding")
                       ELSE IF e[1] = "panic" THEN Panicked(s, "get_embedding")
                       ELSE [s EXCEPT !.embedding = e[2], !.pc = "insert_commit"]]
    /\ NoteEnd(run'[r])
    /\ UNCHANGED <<upstream, db, started, srch, searches, readme_calls, embedding_calls>>

\* github.rs:20-27  CommitInfo.message_headline and .committed_date of an oid
MessageHeadline(oid) == <<"headline of", oid>>
CommittedDate(oid) == <<"date of", oid>>

\* A CommitDocument with the owner and the name of the repository swapped.
CommitDocSwapped(s) ==
    [sha |-> Oid(s), message |-> MessageHeadline(Oid(s)),
     date |-> CommittedDate(Oid(s)), org |-> Repo(s).name, repo |-> Repo(s).owner,
     patch |-> s.patch, summary |-> s.summary, embedding |-> s.embedding]

\* process.rs:224-233  the CommitDocument of the commit being processed
CommitDoc(s) ==
    [sha |-> Oid(s), message |-> MessageHeadline(Oid(s)),
     date |-> CommittedDate(Oid(s)), org |-> Repo(s).owner, repo |-> Repo(s).name,
     patch |-> s.patch, summary |-> s.summary, embedding |-> s.embedding]

\* process.rs:235-242 with database.rs:81-87
InsertCommit(r) ==
    /\ run[r].pc = "insert_commit"
    /\ LET s == Called(run[r], <<"insert_commit", Oid(run[r])>>)
       IN  \/ /\ run' = [run EXCEPT ![r] = Failed(s, "insert_commit")]
              /\ UNCHANGED commits_coll
           \/ /\ commits_coll' = InsertCommitInto(commits_coll, CommitDoc(s))
              /\ run' = [run EXCEPT ![r] =
                           EnterCommit([s EXCEPT !.inserted = Append(@, Oid(s))],
                                       s.ci + 1)]
    /\ NoteEnd(run'[r])
    /\ UNCHANGED <<upstream, readmes_coll, embeddings_coll, started, srch, searches, readme_calls, embedding_calls>>

\* One step of the process_user invocation in slot r.
Step(r) ==
    \/ GetUserContributedRepos(r)
    \/ GetUserId(r)
    \/ GetCommits(r)
    \/ CommitExists(r)
    \/ GetCommitPatch(r)
    \/ GetReadme(r)
    \/ SummarizeReadme(r)
    \/ SummarizeText(r)
    \/ GetEmbedding(r)
    \/ InsertCommit(r)

(***************************************************************************)
(* search                                                                  *)
(***************************************************************************)
\* Fixed-point stand-in for the finite values of f32: x is held as x * Scale.
Scale == 10 * 10 * 10

\* Stand-in for f32::MAX (in fixed point): a result of larger magnitude
\* overflows to an infinity.
F32_MAX == 1000 * Scale

\* A component so large that its square overflows f32 (as 1e20 does).
Huge == 100

\* An f32 value: a finite number, an infinity with its sign, or NaN.
Num(n) == <<"num", n>>
Inf(s) == <<"inf", s>>
NaN == <<"nan", 0>>

Sign(n) == IF n < 0 THEN -1 ELSE 1

\* The f32 a finite real result becomes.
Rounded(n) ==
    IF n > F32_MAX THEN Inf(1)
    ELSE IF n < -F32_MAX THEN Inf(-1)
    ELSE Num(n)

\* f32 product of two vector components (components are whole numbers).
MulComponents(a, b) == Rounded(a * b * Scale)

\* f32 addition.
Add(x, y) ==
    IF x[1] = "nan" \/ y[1] = "nan" THEN NaN
    ELSE IF x[1] = "inf" /\ y[1] = "inf" THEN (IF x[2] = y[2] THEN x ELSE NaN)
    ELSE IF x[1] = "inf" THEN x
    ELSE IF y[1] = "inf" THEN y
    ELSE Rounded(x[2] + y[2])

\* f32 multiplication.
Mul(x, y) ==
    IF x[1] = "nan" \/ y[1] = "nan" THEN NaN
    ELSE IF x[1] = "inf" \/ y[1] = "inf"
         THEN (IF x = Num(0) \/ y = Num(0) THEN NaN ELSE Inf(Sign(x[2]) * Sign(y[2])))
    ELSE Rounded((x[2] * y[2]) \div Scale)

RECURSIVE SqrtBetween(_, _, _)
\* The largest k in lo..hi with k * k <= n (lo * lo <= n < (hi + 1) * (hi + 1)).
SqrtBetween(n, lo, hi) ==
    IF lo >= hi THEN lo
    ELSE LET mid == (lo + hi + 1) \div 2
         IN  IF mid * mid <= n THEN SqrtBetween(n, mid, hi)
             ELSE SqrtBetween(n, lo, mid - 1)

\* The square root of a finite x >= 0, both in fixed point.
Sqrt(x) ==
    SqrtBetween(x * Scale, 0, IF x + Scale < 40 * Scale THEN x + Scale ELSE 40 * Scale)

\* f32::sqrt
FSqrt(x) ==
    IF x[1] = "num" THEN (IF x[2] < 0 THEN NaN ELSE Num(Sqrt(x[2])))
    ELSE IF x = Inf(1) THEN x
    ELSE NaN

\* Division of finite fixed-point values (b # 0), rounding toward zero.
Div(a, b) ==
    LET q == ((IF a < 0 THEN -a ELSE a) * Scale) \div (IF b < 0 THEN -b ELSE b)
    IN  IF (a < 0) = (b < 0) THEN q ELSE -q

\* f32 division.
FDiv(x, y) ==
    IF x[1] = "nan" \/ y[1] = "nan" THEN NaN
    ELSE IF x[1] = "inf" THEN (IF y[1] = "inf" THEN NaN ELSE Inf(x[2] * Sign(y[2])))
    ELSE IF y[1] = "inf" THEN Num(0)
    ELSE IF y[2] = 0 THEN (IF x[2] = 0 THEN NaN ELSE Inf(Sign(x[2])))
    ELSE Rounded(Div(x[2], y[2]))

RECURSIVE DotFrom(_, _, _)
\* Iterator::sum over the zipped products, left to right from acc.
DotFrom(acc, v, w) ==
    IF v = <<>> \/ w = <<>> THEN acc
    ELSE DotFrom(Add(acc, MulComponents(Head(v), Head(w))), Tail(v), Tail(w))

\* ml.rs:269  vec1.iter().zip(vec2.iter()).map(|(a, b)| a * b).sum()
Dot(v, w) == DotFrom(Num(0), v, w)

\* The same computation without the zero-norm guard.
CosineSimilarityUnguarded(vec1, vec2) ==
    FDiv(Dot(vec1, vec2), Mul(FSqrt(Dot(vec1, vec1)), FSqrt(Dot(vec2, vec2))))

\* ml.rs:268-278
CosineSimilarity(vec1, vec2) ==
    LET dot_product == Dot(vec1, vec2)
        norm1 == FSqrt(Dot(vec1, vec1))
        norm2 == FSqrt(Dot(vec2, vec2))
    IN  IF norm1 = Num(0) \/ norm2 = Num(0) THEN Num(0)
        ELSE FDiv(dot_product, Mul(norm1, norm2))

\* The position of a non-NaN f32 in the order of the extended reals.
Rank(x) == IF x[1] = "inf" THEN x[2] * (F32_MAX + 1) ELSE x[2]

\* f32::partial_cmp: NONE when either side is NaN.
PartialCmp(x, y) ==
    IF x[1] = "nan" \/ y[1] = "nan" THEN NONE
    ELSE IF Rank(x) < Rank(y) THEN "Less"
    ELSE IF Rank(x) > Rank(y) THEN "Greater"
    ELSE "Equal"

\* search.rs:42-46  the closure |a, b| b.similarity.partial_cmp(&a.similarity)
Compare(a, b) == PartialCmp(b.similarity, a.similarity)

\* search.rs:34-40
Scored(commits, query_embedding) ==
    [i \in 1..Len(commits) |->
        [similarity |-> CosineSimilarity(query_embedding, commits[i].embedding),
         commit |-> commits[i]]]

\* The results in retrieval order, unsorted.
Unsorted(results) == results

RECURSIVE InsertSortedUnstable(_, _)
\* An insertion that lets x pass the elements it compares equal to.
InsertSortedUnstable(sorted, x) ==
    IF sorted = <<>> THEN <<x>>
    ELSE IF Compare(x, Head(sorted)) = "Greater"
         THEN <<Head(sorted)>> \o InsertSortedUnstable(Tail(sorted), x)
         ELSE <<x>> \o sorted

RECURSIVE InsertSorted(_, _)
\* x placed after every element it does not compare Less than.
InsertSorted(sorted, x) ==
    IF sorted = <<>> THEN <<x>>
    ELSE IF Compare(x, Head(sorted)) # "Less"
         THEN <<Head(sorted)>> \o InsertSorted(Tail(sorted), x)
         ELSE <<x>> \o sorted

RECURSIVE SortBySimilarity(_)
\* search.rs:42-46  results.sort_by(..): a stable sort under Compare.
SortBySimilarity(results) ==
    IF results = <<>> THEN <<>>
    ELSE InsertSorted(SortBySimilarity(SubSeq(results, 1, Len(results) - 1)),
                      results[Len(results)])

\* search.rs:45  .expect("Similarity scores should be comparable") panics when
\* a comparison yields None.  sort_by makes no comparison on fewer than two
\* elements, and otherwise compares every element with another at least once.
SortAborts(results) ==
    /\ Len(results) >= 2
    /\ \E i \in 1..Len(results) : \E j \in 1..Len(results) :
           i # j /\ Compare(results[i], results[j]) = NONE

\* Embedding vectors the embedding model may return for a query, and that
\* stored documents may hold.
SearchVectors ==
    Vectors \cup { <<1, 1>>, <<-1, 0>>, <<0, 0>>, <<>>, <<Huge, 0>> }

\* ml.rs:69-97 as called from search
QueryEmbeddingOutcomes ==
    { <<"err">>, <<"panic">> } \cup { <<"ok", v>> : v \in SearchVectors }

IdleSearch ==
    [pc |-> "idle", commits |-> <<>>, results |-> <<>>, outcome |-> NONE,
     \* history of this invocation
     embedding |-> NONE, store0 |-> <<>>, scored |-> <<>>,
     \* history: the completed invocation before this one
     prev |-> <<>>]

\* search.rs:25-29  the handler is entered and get_all_commits is issued.
SearchStart ==
    /\ srch.pc \in {"idle", "done"}
    /\ searches < MaxSearches
    /\ searches' = searches + 1
    /\ srch' = [IdleSearch EXCEPT
                   !.pc = "get_all_commits",
                   !.store0 = commits_coll,
                   !.prev = IF srch.pc = "done"
                            THEN <<[commits |-> srch.commits,
                                    embedding |-> srch.embedding,
                                    outcome |-> srch.outcome,
                                    results |-> srch.results]>>
                            ELSE <<>>]
    /\ UNCHANGED <<upstream, db, run, started, hist, readme_calls, embedding_calls>>

\* A get_all_commits that takes the documents out of the collection.
SearchGetAllCommitsDraining ==
    /\ srch.pc = "get_all_commits"
    /\ srch' = [srch EXCEPT !.commits = commits_coll, !.pc = "get_embedding"]
    /\ commits_coll' = <<>>
    /\ UNCHANGED <<upstream, readmes_coll, embeddings_coll, run, started, hist, searches, readme_calls, embedding_calls>>

\* search.rs:29 with database.rs:101-109  unwrap_or_default() on an Err
SearchGetAllCommits ==
    /\ srch.pc = "get_all_commits"
    /\ \E got \in {commits_coll, <<>>} :
         srch' = [srch EXCEPT !.commits = got, !.pc = "get_embedding"]
    /\ UNCHANGED <<upstream, db, run, started, hist, searches, readme_calls, embedding_calls>>

\* search.rs:30-48 with ml.rs:69-97
SearchGetEmbedding ==
    /\ srch.pc = "get_embedding"
    /\ \E e \in QueryEmbeddingOutcomes :
         srch' = IF e[1] = "err"
                 THEN [srch EXCEPT !.pc = "done", !.outcome = "ok", !.results = <<>>,
                                   !.embedding = e]
                 ELSE IF e[1] = "panic"
                 THEN [srch EXCEPT !.pc = "done", !.outcome = "panic", !.embedding = e]
                 ELSE LET results == Scored(srch.commits, e[2])
                      IN  IF SortAborts(results)
                          THEN [srch EXCEPT !.pc = "done", !.outcome = "panic",
                                            !.embedding = e, !.scored = results]
                          ELSE [srch EXCEPT !.pc = "done", !.outcome = "ok",
                                            !.embedding = e, !.scored = results,
                                            !.results = SortBySimilarity(results)]
    /\ UNCHANGED <<upstream, db, run, started, hist, searches, readme_calls, embedding_calls>>

Init ==
    /\ gh_contributions = [u \in Users |-> UNSET]
    /\ gh_user_id \in { f \in [Users -> {NONE, "MDQ6VXNlcjE="}] :
                           \A u \in Users \ SeqUsers : f[u] = NONE }
    /\ gh_commits = [k \in RepoKeys |-> UNSET]
    /\ gh_patch = [o \in Oids |-> <<>>]
    /\ commits_coll = <<>>
    /\ readmes_coll = {}
    /\ embeddings_coll = <<>>
    /\ run = [r \in Runs |-> IdleRun]
    /\ started = 0
    /\ okBefore = {}
    /\ abortedAfterInsert = {}
    /\ srch = IdleSearch
    /\ searches = 0
    /\ readme_calls = <<>>
    /\ embedding_calls = <<>>

\* A request in a slot that has served none yet.
StartOnce(r, u) == run[r].pc = "idle" /\ Start(r, u)

\* Sequential use of the service: one /process request at a time (slot 1).
Next ==
    \/ \E u \in SeqUsers : Start(1, u)
    \/ Step(1)

Spec == Init /\ [][Next]_vars

\* One /process request, from its start to its end.
NextOneRun ==
    \/ \E u \in SeqUsers : StartOnce(1, u)
    \/ Step(1)

\* The state of Init with GitHub's answers on contributions and listings
\* fixed from the start (the patches are still fixed when first fetched).
InitOneRun ==
    /\ gh_contributions \in { f \in [Users -> ContributionLists] :
                                 \A u \in Users \ SeqUsers : f[u] = <<>> }
    /\ gh_user_id \in { f \in [Users -> {NONE, "MDQ6VXNlcjE="}] :
                           \A u \in Users \ SeqUsers : f[u] = NONE }
    /\ gh_commits \in [RepoKeys -> CommitListings]
    /\ gh_patch = [o \in Oids |-> <<>>]
    /\ commits_coll = <<>>
    /\ readmes_coll = {}
    /\ embeddings_coll = <<>>
    /\ run = [r \in Runs |-> IdleRun]
    /\ started = 0
    /\ okBefore = {}
    /\ abortedAfterInsert = {}
    /\ srch = IdleSearch
    /\ searches = 0
    /\ readme_calls = <<>>
    /\ embedding_calls = <<>>

\* The handler is a task of the tokio runtime (main.rs #[tokio::main]): once
\* the call it awaits has returned, the task is polled again, so a step of
\* the run that stays possible is eventually taken.
FairOneRun == InitOneRun /\ [][NextOneRun]_vars /\ WF_vars(Step(1))

\* The sequential user contributed to one repository, whose listing holds
\* each commit at most once; GitHub answers the diff request of each commit
\* with some status and some body.
InitPatch ==
    /\ \E k \in RepoKeys : \E cs \in SeqsUpTo(Oids, MaxMixedCommits) :
           /\ \A i, j \in 1..Len(cs) : cs[i] = cs[j] => i = j
           /\ gh_contributions =
                  [u \in Users |-> IF u \in SeqUsers
                                   THEN <<[key |-> k, commit_count |-> 1]>> ELSE <<>>]
           /\ gh_commits = [kk \in RepoKeys |-> IF kk = k THEN cs ELSE <<>>]
    /\ gh_user_id = [u \in Users |-> "MDQ6VXNlcjE="]
    /\ gh_patch \in [Oids -> PatchLens \X PatchStatuses]
    /\ commits_coll = <<>>
    /\ readmes_coll = {}
    /\ embeddings_coll = <<>>
    /\ run = [r \in Runs |-> IdleRun]
    /\ started = 0
    /\ okBefore = {}
    /\ abortedAfterInsert = {}
    /\ srch = IdleSearch
    /\ searches = 0
    /\ readme_calls = <<>>
    /\ embedding_calls = <<>>

\* One /process request against answers of every status.
SpecPatch == InitPatch /\ [][NextOneRun]_vars

\* CommitDocuments process_user can have stored (of one repository).
StoredDocs ==
    { [sha |-> o, message |-> MessageHeadline(o), date |-> CommittedDate(o),
       org |-> k[1], repo |-> k[2], patch |-> 200, summary |-> sm, embedding |-> v] :
      o \in Oids, k \in {<<"org", "repo">>}, sm \in Summaries, v \in SearchVectors }

\* The search handler over a store that earlier ingestion has filled.
InitSearch ==
    /\ gh_contributions = [u \in Users |-> UNSET]
    /\ gh_user_id = [u \in Users |-> NONE]
    /\ gh_commits = [k \in RepoKeys |-> UNSET]
    /\ gh_patch = [o \in Oids |-> <<>>]
    /\ commits_coll \in SeqsUpTo(StoredDocs, MaxDocs)
    /\ readmes_coll = {}
    /\ embeddings_coll = <<>>
    /\ run = [r \in Runs |-> IdleRun]
    /\ started = 0
    /\ okBefore = {}
    /\ abortedAfterInsert = {}
    /\ srch = IdleSearch
    /\ searches = 0
    /\ readme_calls = <<>>
    /\ embedding_calls = <<>>

NextSearch ==
    \/ SearchStart
    \/ SearchGetAllCommits
    \/ SearchGetEmbedding

SpecSearch == InitSearch /\ [][NextSearch]_vars

\* Concurrent use of the service: one /process request per slot, interleaved
\* at their awaits.  Every user contributed to one repository, a commit
\* listing holds at most MaxConcCommits commits and every patch passes the gates.
OneRepoLists ==
    { <<[key |-> k, commit_count |-> 1]>> : k \in RepoKeys }

InitConc ==
    /\ gh_contributions \in [Users -> OneRepoLists]
    /\ gh_user_id = [u \in Users |-> "MDQ6VXNlcjE="]
    /\ gh_commits \in [RepoKeys -> SeqsUpTo(Oids, MaxConcCommits)]
    /\ gh_patch = [o \in Oids |-> <<200, 200>>]
    /\ commits_coll = <<>>
    /\ readmes_coll = {}
    /\ embeddings_coll = <<>>
    /\ run = [r \in Runs |-> IdleRun]
    /\ started = 0
    /\ okBefore = {}
    /\ abortedAfterInsert = {}
    /\ srch = IdleSearch
    /\ searches = 0
    /\ readme_calls = <<>>
    /\ embedding_calls = <<>>

NextConc ==
    \/ \E r \in Runs : \E u \in Users : StartOnce(r, u)
    \/ \E r \in Runs : Step(r)

SpecConc == InitConc /\ [][NextConc]_vars

\* The commits GitHub lists for the one repository of each user: the two
\* users' repositories differ and so do the oids of their commits.
OidsOfUser(u) == IF u = "alice" THEN {"A"} ELSE {"B"}

\* Concurrent use by users who share neither a repository nor a commit.
InitDisjoint ==
    /\ \E ka, kb \in RepoKeys :
           /\ ka # kb
           /\ gh_contributions =
                  [u \in Users |-> <<[key |-> IF u = "alice" THEN ka ELSE kb,
                                      commit_count |-> 1]>>]
           /\ \E ca \in SeqsUpTo(OidsOfUser("alice"), MaxConcCommits) :
              \E cb \in SeqsUpTo(OidsOfUser("bob"), MaxConcCommits) :
                  gh_commits = [k \in RepoKeys |-> IF k = ka THEN ca ELSE cb]
    /\ gh_user_id = [u \in Users |-> "MDQ6VXNlcjE="]
    /\ gh_patch = [o \in Oids |-> <<200, 200>>]
    /\ commits_coll = <<>>
    /\ readmes_coll = {}
    /\ embeddings_coll = <<>>
    /\ run = [r \in Runs |-> IdleRun]
    /\ started = 0
    /\ okBefore = {}
    /\ abortedAfterInsert = {}
    /\ srch = IdleSearch
    /\ searches = 0
    /\ readme_calls = <<>>
    /\ embedding_calls = <<>>

SpecDisjoint == InitDisjoint /\ [][NextConc]_vars

\* The sequential user contributed to one repository, whose commit listing
\* holds at most MaxMixedCommits different commits; every patch passes the gates.
InitMixed ==
    /\ \E k \in RepoKeys : \E cs \in SeqsUpTo(Oids, MaxMixedCommits) :
           /\ \A i, j \in 1..Len(cs) : cs[i] = cs[j] => i = j
           /\ gh_contributions =
                  [u \in Users |-> IF u \in SeqUsers
                                   THEN <<[key |-> k, commit_count |-> 1]>> ELSE <<>>]
           /\ gh_commits = [kk \in RepoKeys |-> IF kk = k THEN cs ELSE <<>>]
    /\ gh_user_id = [u \in Users |-> "MDQ6VXNlcjE="]
    /\ gh_patch = [o \in Oids |-> <<200, 200>>]
    /\ commits_coll = <<>>
    /\ readmes_coll = {}
    /\ embeddings_coll = <<>>
    /\ run = [r \in Runs |-> IdleRun]
    /\ started = 0
    /\ okBefore = {}
    /\ abortedAfterInsert = {}
    /\ srch = IdleSearch
    /\ searches = 0
    /\ readme_calls = <<>>
    /\ embedding_calls = <<>>

\* One /process request interleaved, at the awaits of both handlers, with
\* /search requests (one after another).
NextMixed ==
    \/ \E u \in SeqUsers : StartOnce(1, u)
    \/ Step(1)
    \/ SearchStart
    \/ SearchGetAllCommits
    \/ SearchGetEmbedding

SpecMixed == InitMixed /\ [][NextMixed]_vars

(***************************************************************************)
(* The README cache on its own                                             *)
(***************************************************************************)
\* Contents GitHub may serve for a README over time.
ReadmeVersions == {"README", "README v2"}

\* database.rs:173-187  find_one({owner, repo}): the content of a matching
\* document, NONE when none matches.
GetCachedReadmeResults(coll, k) ==
    IF CachedReadme(coll, k[1], k[2]) = {} THEN {NONE}
    ELSE { d.content : d \in CachedReadme(coll, k[1], k[2]) }

\* database.rs:172-187  get_cached_readme(owner, repo)
GetCachedReadmeOp(k) ==
    /\ Len(readme_calls) < MaxReadmeCalls
    /\ \E res \in GetCachedReadmeResults(readmes_coll, k) :
           readme_calls' = Append(readme_calls, <<"get_cached_readme", k, res>>)
    /\ UNCHANGED <<upstream, db, run, started, hist, srch, searches, embedding_calls>>

\* database.rs:189-202  cache_readme(owner, repo, content)
CacheReadmeOp(k, c) ==
    /\ Len(readme_calls) < MaxReadmeCalls
    /\ readmes_coll' = CacheReadmeInto(readmes_coll,
                           [owner |-> k[1], repo |-> k[2], content |-> c])
    /\ readme_calls' = Append(readme_calls, <<"cache_readme", k, c>>)
    /\ UNCHANGED <<upstream, commits_coll, embeddings_coll, run, started, hist,
                   srch, searches, embedding_calls>>

\* github.rs:253-314  get_readme(owner, repo): the cached content on a hit;
\* on a miss the fetch fails, or its content is cached and returned.
GetReadmeOp(k) ==
    /\ Len(readme_calls) < MaxReadmeCalls
    /\ \E res \in GetCachedReadmeResults(readmes_coll, k) :
         LET looked == Append(readme_calls, <<"get_cached_readme", k, res>>)
         IN  \/ /\ res # NONE
                /\ readme_calls' = looked
                /\ UNCHANGED readmes_coll
             \/ /\ res = NONE
                /\ \E cause \in ReadmeFailures :
                       readme_calls' = looked
                /\ UNCHANGED readmes_coll
             \/ /\ res = NONE
                /\ \E c \in ReadmeVersions :
                     /\ readmes_coll' = CacheReadmeInto(readmes_coll,
                            [owner |-> k[1], repo |-> k[2], content |-> c])
                     /\ readme_calls' = Append(looked, <<"cache_readme", k, c>>)
    /\ UNCHANGED <<upstream, commits_coll, embeddings_coll, run, started, hist,
                   srch, searches, embedding_calls>>

InitReadme ==
    /\ gh_contributions = [u \in Users |-> UNSET]
    /\ gh_user_id = [u \in Users |-> UNSET]
    /\ gh_commits = [k \in RepoKeys |-> UNSET]
    /\ gh_patch = [o \in Oids |-> <<>>]
    /\ commits_coll = <<>>
    /\ readmes_coll = {}
    /\ embeddings_coll = <<>>
    /\ run = [r \in Runs |-> IdleRun]
    /\ started = 0
    /\ okBefore = {}
    /\ abortedAfterInsert = {}
    /\ srch = IdleSearch
    /\ searches = 0
    /\ readme_calls = <<>>
    /\ embedding_calls = <<>>

\* Any sequence of README cache operations, one after another.
NextReadme ==
    \/ \E k \in RepoKeys : GetCachedReadmeOp(k)
    \/ \E k \in RepoKeys : \E c \in ReadmeVersions : CacheReadmeOp(k, c)
    \/ \E k \in RepoKeys : GetReadmeOp(k)

SpecReadme == InitReadme /\ [][NextReadme]_vars

(***************************************************************************)
(* The embedding cache on its own                                          *)
(***************************************************************************)
\* ml.rs:71  the embedding model's name
EmbeddingModels == {"text-embedding-3-small"}

\* Texts an embedding may be cached for: a serialized summary, a query.
EmbeddingInputs == { SummaryJson(s) : s \in Summaries } \cup { <<"query">> }

EmbeddingKeys == EmbeddingModels \X EmbeddingInputs

\* The positions of the cached embeddings with key k = <<model, input>>.
CachedEmbeddings(coll, k) ==
    { i \in 1..Len(coll) : coll[i].model = k[1] /\ coll[i].input = k[2] }

\* database.rs:112-147  find_one({model, input}): the vector of a matching
\* document, NONE when none matches.  No sort is given, so any matching
\* document may be the one returned.
GetCachedEmbeddingResults(coll, k) ==
    IF CachedEmbeddings(coll, k) = {} THEN {NONE}
    ELSE { coll[i].embedding : i \in CachedEmbeddings(coll, k) }

\* database.rs:150-169  insert_one({model, input, embedding}); the collection
\* has no unique index.
CacheEmbeddingInto(coll, doc) == Append(coll, doc)

\* database.rs:111-147  get_cached_embedding(model, input_text)
GetCachedEmbeddingOp(k) ==
    /\ Len(embedding_calls) < MaxEmbeddingCalls
    /\ \E res \in GetCachedEmbeddingResults(embeddings_coll, k) :
           embedding_calls' = Append(embedding_calls, <<"get_cached_embedding", k, res>>)
    /\ UNCHANGED <<upstream, db, run, started, hist, srch, searches, readme_calls>>

\* database.rs:149-169  cache_embedding(model, input_text, embedding)
CacheEmbeddingOp(k, v) ==
    /\ Len(embedding_calls) < MaxEmbeddingCalls
    /\ embeddings_coll' = CacheEmbeddingInto(embeddings_coll,
                              [model |-> k[1], input |-> k[2], embedding |-> v])
    /\ embedding_calls' = Append(embedding_calls, <<"cache_embedding", k, v>>)
    /\ UNCHANGED <<upstream, commits_coll, readmes_coll, run, started, hist,
                   srch, searches, readme_calls>>

InitEmbeddingCache ==
    /\ gh_contributions = [u \in Users |-> UNSET]
    /\ gh_user_id = [u \in Users |-> UNSET]
    /\ gh_commits = [k \in RepoKeys |-> UNSET]
    /\ gh_patch = [o \in Oids |-> <<>>]
    /\ commits_coll = <<>>
    /\ readmes_coll = {}
    /\ embeddings_coll = <<>>
    /\ run = [r \in Runs |-> IdleRun]
    /\ started = 0
    /\ okBefore = {}
    /\ abortedAfterInsert = {}
    /\ srch = IdleSearch
    /\ searches = 0
    /\ readme_calls = <<>>
    /\ embedding_calls = <<>>

\* Any sequence of embedding cache operations, one after another.
NextEmbeddingCache ==
    \/ \E k \in EmbeddingKeys : GetCachedEmbeddingOp(k)
    \/ \E k \in EmbeddingKeys : \E v \in Vectors : CacheEmbeddingOp(k, v)

SpecEmbeddingCache == InitEmbeddingCache /\ [][NextEmbeddingCache]_vars

(***************************************************************************)
(* Properties                                                              *)
(***************************************************************************)
\* The last collaborator call a run has issued.
LastCall(s) == s.calls[Len(s.calls)]

\* The oids GitHub lists for the repositories of a run.
ListedOids(s) ==
    UNION { IF gh_commits[<<s.repos[i].owner, s.repos[i].name>>] = UNSET THEN {}
            ELSE { gh_commits[<<s.repos[i].owner, s.repos[i].name>>][j] :
                     j \in 1..Len(gh_commits[<<s.repos[i].owner, s.repos[i].name>>]) } :
            i \in 1..Len(s.repos) }

\* The number of stored documents with a given sha.
Copies(sha) == Cardinality({ i \in 1..Len(commits_coll) : commits_coll[i].sha = sha })

\* The run has just had its patch fetch answered with a patch.
PatchFetched(s) ==
    /\ s.calls # <<>>
    /\ LastCall(s)[1] = "get_commit_patch"
    /\ s.failed # "get_commit_patch"

EnrichmentOps == {"summarize_readme", "summarize_text", "get_embedding"}

\* C1: on every successful process_user run, total_processed equals the number
\* of CommitDocuments the run inserted (a skipped commit adds 0, a persisted
\* commit adds 1).
C1_TotalProcessedCountsInserted ==
    \A r \in Runs :
        run[r].outcome = "ok" =>
            run[r].response.total_processed = Len(run[r].inserted)

\* C2: a run that follows a successful run of the same user, with the same
\* upstream data and no other writer, returns total_processed = 0.
C2_RerunProcessesZero ==
    \A r \in Runs :
        (run[r].outcome = "ok" /\ run[r].rerun) =>
            run[r].response.total_processed = 0

\* C3: a run that follows a successful run of the same user, with the same
\* upstream data and no other writer, inserts no document (the store stays as
\* it was when the run started, with no sha present twice) and issues no
\* summarize or embed call.
C3_RerunInsertsNothing ==
    \A r \in Runs :
        run[r].rerun =>
            /\ commits_coll = run[r].store0
            /\ run[r].inserted = <<>>
            /\ \A i \in 1..Len(run[r].calls) :
                   run[r].calls[i][1] \notin EnrichmentOps \cup {"insert_commit"}
            /\ \A sha \in Shas(commits_coll) : Copies(sha) = 1

\* A successful rerun over a non-empty store that met an already stored commit
\* at the dedup gate and fetched the patch of a commit the first run skipped.
C3_Witness ==
    \E r \in Runs :
        /\ run[r].rerun
        /\ run[r].outcome = "ok"
        /\ commits_coll # <<>>
        /\ \E i \in 1..Len(run[r].calls) :
               /\ run[r].calls[i][1] = "commit_exists"
               /\ run[r].calls[i][2] \in Shas(commits_coll)
        /\ \E i \in 1..Len(run[r].calls) : run[r].calls[i][1] = "get_commit_patch"

\* C4: in every interleaving of concurrent process_user runs the store never
\* holds two documents with the same sha.
C4_ShaUniqueUnderConcurrency ==
    \A i, j \in 1..Len(commits_coll) :
        commits_coll[i].sha = commits_coll[j].sha => i = j

\* C5: a commit whose fetched patch is longer than 50,000 bytes is never
\* inserted by the run; a commit whose patch is exactly 50,000 bytes (and is
\* not stored yet) proceeds to enrichment and is in the store once the run has
\* gone through without a failure.
C5_SizeGate ==
    \A r \in Runs :
        LET s == run[r]
        IN  /\ \A i \in 1..Len(s.inserted) :
                   gh_patch[s.inserted[i]][1] <= MAX_PATCH_SIZE_BYTES
            /\ PatchFetched(s) =>
                   LET len == gh_patch[LastCall(s)[2]][1]
                   IN  /\ len > MAX_PATCH_SIZE_BYTES =>
                              /\ s.pc # "get_readme"
                              /\ LastCall(s)[2] \notin Shas(commits_coll)
                       /\ len = MAX_PATCH_SIZE_BYTES =>
                              /\ s.pc = "get_readme"
                              /\ s.patch = MAX_PATCH_SIZE_BYTES
            /\ s.outcome = "ok" =>
                   \A o \in ListedOids(s) :
                       gh_patch[o] = <<MAX_PATCH_SIZE_BYTES, 200>> =>
                           \E i \in 1..Len(commits_coll) :
                               /\ commits_coll[i].sha = o
                               /\ commits_coll[i].patch = MAX_PATCH_SIZE_BYTES

\* A successful run that inserted a commit with a patch of exactly 50,000
\* bytes and skipped a commit with a patch of 50,001 bytes.
C5_Witness ==
    \E r \in Runs :
        /\ run[r].outcome = "ok"
        /\ \E i \in 1..Len(run[r].inserted) :
               gh_patch[run[r].inserted[i]] = <<MAX_PATCH_SIZE_BYTES, 200>>
        /\ \E i \in 1..Len(run[r].calls) :
               /\ run[r].calls[i][1] = "get_commit_patch"
               /\ gh_patch[run[r].calls[i][2]] = <<MAX_PATCH_SIZE_BYTES + 1, 200>>
               /\ run[r].calls[i][2] \notin Shas(commits_coll)

\* C6: a commit whose fetched patch is empty is never inserted by the run,
\* whatever else holds of it, and the run goes on to the next commit (or the
\* next repository, or its successful return) without an error.
C6_EmptyGate ==
    \A r \in Runs :
        LET s == run[r]
        IN  /\ \A i \in 1..Len(s.inserted) : gh_patch[s.inserted[i]][1] # 0
            /\ \A i \in 1..Len(commits_coll) : commits_coll[i].patch # 0
            /\ (PatchFetched(s) /\ gh_patch[LastCall(s)[2]] = <<0, 200>>) =>
                   /\ s.pc \in {"commit_exists", "get_user_id", "done"}
                   /\ s.pc = "done" => s.outcome = "ok"
                   /\ LastCall(s)[2] \notin Shas(commits_coll)

\* A run that fetched an empty patch, in a repository whose README is cached,
\* and is at the existence check of the next commit.
C6_Witness ==
    \E r \in Runs :
        /\ PatchFetched(run[r])
        /\ gh_patch[LastCall(run[r])[2]] = <<0, 200>>
        /\ run[r].pc = "commit_exists"
        /\ run[r].ci = 2
        /\ CachedReadme(readmes_coll, Repo(run[r]).owner, Repo(run[r]).name) # {}

\* C7: when a collaborator call of a run fails, the run ends there with an
\* error response, and what it inserted before is still in the store.
C7_FailureReturnsError ==
    \A r \in Runs :
        run[r].failed # NONE =>
            /\ run[r].pc = "done"
            /\ run[r].outcome = "error"
            /\ \A i \in 1..Len(run[r].inserted) :
                   run[r].inserted[i] \in Shas(commits_coll)

\* C8: after a successful run the store holds exactly one document for every
\* listed commit with a non-empty patch of at most 50,000 bytes, and no run
\* summarizes, embeds or inserts a commit that was in the store when it started
\* (so nothing an earlier aborted run inserted is processed again).
C8_Resumable ==
    \A r \in Runs :
        LET s == run[r]
        IN  /\ s.outcome = "ok" =>
                   \A o \in ListedOids(s) :
                       /\ gh_patch[o] # <<>>
                       /\ (gh_patch[o][1] > 0 /\ gh_patch[o][1] <= MAX_PATCH_SIZE_BYTES)
                              => Copies(o) = 1
            /\ \A i \in 1..Len(s.calls) :
                   s.calls[i][1] \in {"summarize_text", "get_embedding", "insert_commit"}
                       => s.calls[i][2] \notin Shas(s.store0)

\* A successful run of a user whose earlier run aborted after inserting: it
\* met a commit of the aborted run at the dedup gate and inserted another.
C8_Witness ==
    \E r \in Runs :
        /\ run[r].resumed
        /\ ~run[r].rerun
        /\ run[r].outcome = "ok"
        /\ run[r].store0 # <<>>
        /\ run[r].inserted # <<>>
        /\ \E i \in 1..Len(run[r].calls) :
               /\ run[r].calls[i][1] = "commit_exists"
               /\ run[r].calls[i][2] \in Shas(run[r].store0)

\* C9: a run for a username whose identity resolution yields no id does not
\* succeed, whatever repositories discovery returned.
C9_UnresolvableUserFails ==
    \A r \in Runs :
        (run[r].pc = "done" /\ gh_user_id[run[r].user] = NONE) =>
            run[r].outcome = "error"

\* C10: whenever the embedding of the query fails, search returns an empty
\* list: no error, no abort.
C10_SearchDegradesToEmpty ==
    (srch.pc = "done" /\ srch.embedding[1] # "ok") =>
        (srch.outcome = "ok" /\ srch.results = <<>>)

(***************************************************************************)
(* Properties of search                                                    *)
(***************************************************************************)
\* The search invocation has ended and its query embedding had succeeded.
SearchEmbedded == srch.pc = "done" /\ srch.embedding[1] = "ok"

\* The search invocation has returned a list computed from a query embedding.
SearchReturned == SearchEmbedded /\ srch.outcome = "ok"

\* The number of positions of a sequence that hold x.
Count(seq, x) == Cardinality({ i \in 1..Len(seq) : seq[i] = x })

\* A vector of norm zero: every component is zero, or there is none.
ZeroNorm(v) == \A i \in 1..Len(v) : v[i] = 0

RECURSIVE RealDot(_, _)
\* The dot product over the integers, without rounding or overflow.
RealDot(v, w) ==
    IF v = <<>> \/ w = <<>> THEN 0
    ELSE Head(v) * Head(w) + RealDot(Tail(v), Tail(w))

\* The commits of a list of results whose similarity is s, in list order
\* (srch.scored is in retrieval order).
TiedResults(results, s) ==
    LET Tied(x) == x.similarity = s
        tied == SelectSeq(results, Tied)
    IN  [i \in 1..Len(tied) |-> tied[i].commit]


C12_SortNeverAborts ==
    SearchEmbedded => srch.outcome = "ok"

\* C13: when the query embedding succeeds, search returns one SearchResult per
\* retrieved document (a permutation of the retrieved documents), each paired
\* with the cosine similarity of the query embedding and its stored embedding.
C13_OneResultPerDocument ==
    SearchEmbedded =>
        /\ srch.outcome = "ok"
        /\ Len(srch.results) = Len(srch.commits)
        /\ \A i \in 1..Len(srch.commits) :
               Count([k \in 1..Len(srch.results) |-> srch.results[k].commit],
                     srch.commits[i]) = Count(srch.commits, srch.commits[i])
        /\ \A i \in 1..Len(srch.results) :
               srch.results[i].similarity =
                   CosineSimilarity(srch.embedding[2], srch.results[i].commit.embedding)

\* C14: in a returned list, the commits of equal similarity are in the order
\* in which the store returned them.
C14_StableTies ==
    SearchReturned =>
        \A i \in 1..Len(srch.results) :
            /\ TiedResults(srch.results, srch.results[i].similarity) =
                   TiedResults(srch.scored, srch.results[i].similarity)
            /\ Len(srch.scored) = Len(srch.commits)
            /\ srch.scored[i].commit = srch.commits[i]

\* A returned list of two different documents with the same similarity.
C14_Witness ==
    /\ SearchReturned
    /\ Len(srch.results) = 2
    /\ srch.results[1].similarity = srch.results[2].similarity
    /\ srch.results[1].commit # srch.results[2].commit
    /\ srch.results[1].commit.embedding # srch.results[2].commit.embedding

\* C15: the similarity computed for a pair of which one vector has zero norm
\* (all components zero, or no component) is 0.0, whatever the other vector
\* is: not NaN, not an infinity.
C15_ZeroNormGivesZero ==
    SearchEmbedded =>
        \A i \in 1..Len(srch.scored) :
            (ZeroNorm(srch.embedding[2]) \/ ZeroNorm(srch.commits[i].embedding))
                => srch.scored[i].similarity = Num(0)

\* A search that scored an all-zero stored vector and an empty stored vector
\* against a query whose norm overflows.
C15_Witness ==
    /\ SearchEmbedded
    /\ srch.embedding[2] = <<Huge, 0>>
    /\ \E i \in 1..Len(srch.scored) : srch.commits[i].embedding = <<0, 0>>
    /\ \E i \in 1..Len(srch.scored) : srch.commits[i].embedding = <<>>

\* C16: the similarity of a non-zero vector with itself is 1.0 (within one
\* unit of the fixed-point resolution), the similarity of two non-zero vectors
\* of equal length with dot product 0 is 0.0, and with stored embeddings
\* [1,0], [0,1] and query [1,0] search returns the [1,0] document first with
\* similarity 1.0 and the other second with similarity 0.0.
C16_SelfOneOrthogonalZero ==
    SearchEmbedded =>
        /\ \A i \in 1..Len(srch.scored) :
               LET q == srch.embedding[2]
                   d == srch.commits[i].embedding
                   sim == srch.scored[i].similarity
               IN  /\ (d = q /\ ~ZeroNorm(q)) =>
                          (sim[1] = "num" /\ sim[2] >= Scale - 1 /\ sim[2] <= Scale + 1)
                   /\ (~ZeroNorm(q) /\ ~ZeroNorm(d) /\ Len(q) = Len(d) /\ RealDot(q, d) = 0)
                          => sim = Num(0)
        /\ ( /\ srch.embedding[2] = <<1, 0>>
             /\ Len(srch.commits) = 2
             /\ { srch.commits[1].embedding, srch.commits[2].embedding }
                    = { <<1, 0>>, <<0, 1>> } )
               => /\ srch.outcome = "ok"
                  /\ srch.results[1].commit.embedding = <<1, 0>>
                  /\ srch.results[1].similarity = Num(Scale)
                  /\ srch.results[2].commit.embedding = <<0, 1>>
                  /\ srch.results[2].similarity = Num(0)

\* C17: every SearchResult search returns has a similarity between 0 and 1
\* inclusive.
C17_SimilarityInUnitInterval ==
    SearchReturned =>
        \A i \in 1..Len(srch.results) :
            /\ srch.results[i].similarity[1] = "num"
            /\ srch.results[i].similarity[2] >= 0
            /\ srch.results[i].similarity[2] <= Scale

\* C18: search is read-only: no step of a search invocation (retrieval with or
\* without a read failure, embedding success or failure, return) changes the
\* commits, readmes or embeddings collection, also between the steps of an
\* ingestion run and after other searches.
C18_SearchReadOnly ==
    [][ srch' # srch => UNCHANGED <<commits_coll, readmes_coll, embeddings_coll>> ]_vars

\* A search that started on an empty store, retrieved what an ingestion run
\* had inserted in between, and returned it while the run's writes are intact.
C18_Witness ==
    /\ SearchReturned
    /\ srch.store0 = <<>>
    /\ srch.commits # <<>>
    /\ srch.results # <<>>
    /\ commits_coll = srch.commits
    /\ readmes_coll # {}
    /\ run[1].inserted # <<>>

\* What discovery returned to a run: the contributions with a positive count.
Discovered(s) == SelectContributed(gh_contributions[s.user])

\* C19: on every successful run the returned repositories list has exactly one
\* "owner/name" entry per repository discovery returned, in discovery order,
\* whether or not the repository's listing was empty or all its commits were
\* skipped.
C19_RepositoriesListed ==
    \A r \in Runs :
        run[r].outcome = "ok" =>
            /\ Len(run[r].response.repositories) = Len(Discovered(run[r]))
            /\ \A i \in 1..Len(Discovered(run[r])) :
                   run[r].response.repositories[i] = FullName(Discovered(run[r])[i])

\* A successful run over two repositories, one with an empty commit listing
\* and one with a listed commit that a gate skipped, which inserted nothing.
C19_Witness ==
    \E r \in Runs :
        /\ run[r].outcome = "ok"
        /\ Len(Discovered(run[r])) = 2
        /\ run[r].inserted = <<>>
        /\ run[r].store0 = <<>>
        /\ \E i \in 1..2 :
               gh_commits[<<Discovered(run[r])[i].owner, Discovered(run[r])[i].name>>] = <<>>
        /\ \E i \in 1..Len(run[r].calls) : run[r].calls[i][1] = "get_commit_patch"

\* C20: on every successful run total_expected is the sum of the commit counts
\* discovery reported, and total_processed does not exceed it, whatever
\* listings the commit history returns.
C20_ExpectedBoundsProcessed ==
    \A r \in Runs :
        run[r].outcome = "ok" =>
            /\ run[r].response.total_expected = SumCounts(Discovered(run[r]))
            /\ run[r].response.total_processed <= run[r].response.total_expected

\* C21: a failure of the README fetch or of its decoding (no answer, a
\* non-success status, an unparseable body, no content field, invalid base64,
\* invalid UTF-8) does not abort the run: the README access yields none, no
\* README summarization is issued and the text to summarize is the patch alone.
C21_ReadmeFailureTolerated ==
    \A r \in Runs :
        run[r].readme_result \in ReadmeFailures =>
            /\ run[r].failed # "get_readme"
            /\ run[r].readme_content = NONE
            /\ run[r].text_to_summarize = <<run[r].patch>>
            /\ LastCall(run[r])[1] # "summarize_readme"

\* C22: the commits collection is append-only: every document in it is still
\* in it, with every field unchanged, after every step of process_user and of
\* search, and documents are only added at its end.
C22_StoreAppendOnly ==
    [][ /\ Len(commits_coll') >= Len(commits_coll)
        /\ \A i \in 1..Len(commits_coll) : commits_coll'[i] = commits_coll[i] ]_vars

\* The store holds two documents, the second inserted while a search that had
\* retrieved the first was in flight, and the run and the search have ended.
C22_Witness ==
    /\ Len(commits_coll) = 2
    /\ commits_coll[1].sha # commits_coll[2].sha
    /\ srch.pc = "done"
    /\ Len(srch.commits) = 1
    /\ srch.commits[1] = commits_coll[1]
    /\ run[1].pc = "done"

\* C24: every process_user run that ends without success surfaces the same
\* response, HTTP 500 with the body "Internal Server Error", whichever
\* collaborator failed; and every search ends with a list, never an error.
C24_UniformFailureResponse ==
    /\ \A r \in Runs :
           (run[r].pc = "done" /\ run[r].outcome # "ok") =>
               run[r].response = ErrorResponse
    /\ srch.pc = "done" => srch.outcome = "ok"

(***************************************************************************)
(* Properties of the per-commit pipeline, stated over the call log          *)
(***************************************************************************)
\* The index of the existence check that opened the commit a call belongs to:
\* the latest commit_exists call at or before call j (0 if there is none).
CommitStart(s, j) ==
    LET starts == { i \in 1..j : s.calls[i][1] = "commit_exists" }
    IN  IF starts = {} THEN 0
        ELSE CHOOSE i \in starts : \A k \in starts : k <= i

\* The commit was in the store when the run issued call k: it was there when
\* the run started, or the run had inserted it by an earlier call.
StoredBefore(s, o, k) ==
    \/ o \in Shas(s.store0)
    \/ \E i \in 1..(k - 1) : s.calls[i][1] = "insert_commit" /\ s.calls[i][2] = o

\* The patch GitHub serves for the commit passes the size and emptiness gates.
PassesPatchGates(o) ==
    /\ gh_patch[o] # <<>>
    /\ gh_patch[o][1] > 0
    /\ gh_patch[o][1] <= MAX_PATCH_SIZE_BYTES

PerCommitOps ==
    {"get_readme", "summarize_readme", "summarize_text", "get_embedding", "insert_commit"}

\* C25: gates precede enrichment.  A patch fetch is issued only for a commit
\* the dedup gate let through, right after its existence check; a README
\* access, README summarization, commit summarization, embedding or insertion
\* is issued only for a commit that was not stored and whose fetched patch is
\* non-empty and at most 50,000 bytes.
C25_GatesPrecedeEnrichment ==
    \A r \in Runs :
        LET s == run[r]
        IN  \A j \in 1..Len(s.calls) :
                LET k == CommitStart(s, j)
                IN  /\ s.calls[j][1] = "get_commit_patch" =>
                           /\ k = j - 1
                           /\ k > 0
                           /\ s.calls[k][2] = s.calls[j][2]
                           /\ ~StoredBefore(s, s.calls[j][2], k)
                    /\ s.calls[j][1] \in PerCommitOps =>
                           /\ k > 0
                           /\ k + 1 < j
                           /\ s.calls[k + 1] = <<"get_commit_patch", s.calls[k][2]>>
                           /\ ~StoredBefore(s, s.calls[k][2], k)
                           /\ PassesPatchGates(s.calls[k][2])
                           /\ s.calls[j][1] \in {"summarize_text", "get_embedding",
                                                 "insert_commit"}
                                  => s.calls[j][2] = s.calls[k][2]

\* A successful run over a non-empty store that met a stored commit at the
\* dedup gate and went on, fetched a patch of 50,001 bytes and went on, and
\* whose predecessor had enriched and inserted the stored commit.
C25_Witness ==
    \E r \in Runs :
        LET s == run[r]
        IN  /\ s.outcome = "ok"
            /\ s.store0 # <<>>
            /\ \E j \in 1..(Len(s.calls) - 1) :
                   /\ s.calls[j][1] = "commit_exists"
                   /\ s.calls[j][2] \in Shas(s.store0)
                   /\ s.calls[j + 1][1] = "commit_exists"
            /\ \E j \in 1..Len(s.calls) :
                   /\ s.calls[j][1] = "get_commit_patch"
                   /\ gh_patch[s.calls[j][2]] = <<MAX_PATCH_SIZE_BYTES + 1, 200>>
                   /\ j = Len(s.calls)

\* The number of insert_commit calls a run has issued for a commit since the
\* existence check that opened the commit's current processing.
InsertsSinceStart(s) ==
    LET k == CommitStart(s, Len(s.calls))
    IN  Cardinality({ i \in (k + 1)..Len(s.calls) : s.calls[i][1] = "insert_commit" })

\* The store gained exactly one document, at its end.
OneDocAppended ==
    /\ Len(commits_coll') = Len(commits_coll) + 1
    /\ SubSeq(commits_coll', 1, Len(commits_coll)) = commits_coll

\* C26: insertion follows successful enrichment.  Whenever the store gains a
\* document, the inserting run's two latest calls were the summarization and
\* then the embedding of that same commit, both answered; the document holds
\* the summary and the embedding they returned, the commit's oid as sha and
\* the repository being processed as org/repo.  A run that ended on a failed
\* summarization or embedding issued no insertion for that commit and the
\* commit is not in the store.
C26_InsertAfterEnrichment ==
    /\ [](\A r \in Runs :
            run[r].failed \in {"summarize_text", "get_embedding"} =>
                /\ InsertsSinceStart(run[r]) = 0
                /\ Oid(run[r]) \notin Shas(commits_coll)
                /\ LastCall(run[r])[1] = run[r].failed
                /\ LastCall(run[r])[2] = Oid(run[r]))
    /\ [][ commits_coll' # commits_coll =>
              /\ OneDocAppended
              /\ \E r \in Runs :
                    LET s == run[r]
                        n == Len(s.calls)
                        doc == commits_coll'[Len(commits_coll')]
                    IN  /\ s.pc = "insert_commit"
                        /\ run'[r].inserted = Append(s.inserted, Oid(s))
                        /\ n >= 2
                        /\ s.calls[n][1] = "get_embedding"
                        /\ s.calls[n][2] = Oid(s)
                        /\ s.calls[n - 1][1] = "summarize_text"
                        /\ s.calls[n - 1][2] = Oid(s)
                        /\ s.summary \in Summaries
                        /\ s.embedding \in Vectors
                        /\ doc.summary = s.calls[n][4]
                        /\ doc.summary = s.summary
                        /\ doc.embedding = s.embedding
                        /\ doc.sha = Oid(s)
                        /\ doc.org = Repo(s).owner
                        /\ doc.repo = Repo(s).name ]_vars

\* A run that inserted one commit with one embedding and then failed on the
\* embedding of the next commit, in a repository whose owner and name differ.
C26_Witness ==
    \E r \in Runs :
        /\ run[r].failed = "get_embedding"
        /\ run[r].outcome = "error"
        /\ Len(run[r].inserted) = 1
        /\ Len(commits_coll) = 1
        /\ commits_coll[1].sha = run[r].inserted[1]
        /\ commits_coll[1].sha # Oid(run[r])
        /\ commits_coll[1].embedding = <<0, 1>>
        /\ commits_coll[1].org # commits_coll[1].repo

\* The two shapes of a text to summarize.
PatchAlone(text, patch) == text = <<patch>>
LabelledSections(text, patch) ==
    \E rs \in ReadmeSummaries :
        text = <<"Repository README Summary:\n", rs, "\n\nCommit Changes:\n", patch>>

\* C27: the enrichment input.  For every commit summarization a run issued,
\* the text is the commit's patch alone when the README access just before it
\* yielded no README, and the README summary and the patch under their two
\* labels when a README was found and summarized; summarize_readme is called
\* only right after a README access that yielded a content, and with it.
C27_EnrichmentInput ==
    \A r \in Runs :
        LET s == run[r]
        IN  /\ \A j \in 1..Len(s.calls) :
                   /\ s.calls[j][1] = "summarize_text" =>
                          /\ j > 1
                          /\ s.calls[j - 1][1] \in {"get_readme", "summarize_readme"}
                          /\ s.calls[j - 1][1] = "get_readme" =>
                                 PatchAlone(s.calls[j][3], gh_patch[s.calls[j][2]][1])
                          /\ s.calls[j - 1][1] = "summarize_readme" =>
                                 LabelledSections(s.calls[j][3], gh_patch[s.calls[j][2]][1])
                   /\ s.calls[j][1] = "summarize_readme" =>
                          /\ j > 1
                          /\ s.calls[j - 1][1] = "get_readme"
                          /\ s.calls[j][2] \in ReadmeContents
            /\ s.pc = "summarize_readme" =>
                   /\ s.readme_result \in {"hit", "fetched"}
                   /\ s.readme_content \in ReadmeContents
            /\ s.pc = "summarize_text" =>
                   /\ s.readme_result \in {"hit", "fetched"} =>
                          /\ LastCall(s)[1] = "summarize_readme"
                          /\ LabelledSections(s.text_to_summarize, s.patch)
                   /\ s.readme_result \notin {"hit", "fetched"} =>
                          /\ s.readme_result \in ReadmeFailures
                          /\ ~ReadmeFailureIsErr(s.readme_result)
                          /\ s.readme_content = NONE
                          /\ LastCall(s)[1] = "get_readme"
                          /\ PatchAlone(s.text_to_summarize, s.patch)

\* A run that summarized one commit from its patch alone (no README) and
\* another from the labelled README summary and patch, the patches differing.
C27_Witness ==
    \E r \in Runs :
        \E i, j \in 1..Len(run[r].calls) :
            /\ run[r].calls[i][1] = "summarize_text"
            /\ run[r].calls[j][1] = "summarize_text"
            /\ run[r].calls[i - 1][1] = "get_readme"
            /\ run[r].calls[j - 1][1] = "summarize_readme"
            /\ Len(run[r].calls[i][3]) = 1
            /\ Len(run[r].calls[j][3]) = 4
            /\ run[r].calls[i][3][1] # run[r].calls[j][3][4]

\* The embedding calls in a run's log.
EmbeddingCalls(s) == { i \in 1..Len(s.calls) : s.calls[i][1] = "get_embedding" }

\* C28: the embedding input is the serialized summary and nothing else.  The
\* text of every embedding call is the JSON of the summary that the commit's
\* summarization returned, and any two embedding calls (of one run or of two)
\* whose summaries are equal were handed the same text.
C28_EmbeddingOverSummaryOnly ==
    \A r1, r2 \in Runs :
        \A i \in EmbeddingCalls(run[r1]) : \A j \in EmbeddingCalls(run[r2]) :
            LET a == run[r1].calls[i]
                b == run[r2].calls[j]
            IN  /\ a[4] \in Summaries
                /\ a[3] = SummaryJson(a[4])
                /\ a[4] = b[4] => a[3] = b[3]

\* One run embedded two different commits whose patches differ in length, one
\* summarized with the README summary and one from the patch alone, and whose
\* summarizations returned equal summaries.
C28_Witness ==
    \E r \in Runs :
        \E i, j \in EmbeddingCalls(run[r]) :
            LET s == run[r]
            IN  /\ i > 1
                /\ j > 1
                /\ s.calls[i][2] # s.calls[j][2]
                /\ gh_patch[s.calls[i][2]] # gh_patch[s.calls[j][2]]
                /\ s.calls[i][4] = s.calls[j][4]
                /\ s.calls[i - 1][1] = "summarize_text"
                /\ s.calls[j - 1][1] = "summarize_text"
                /\ Len(s.calls[i - 1][3]) = 1
                /\ Len(s.calls[j - 1][3]) = 4

\* The calls that list, fetch, enrich or insert commits.
CommitWork ==
    {"get_commits", "commit_exists", "get_commit_patch", "get_readme",
     "summarize_readme", "summarize_text", "get_embedding", "insert_commit"}

\* C29: identity resolution precedes all commit work.  A run resolves the
\* identity once, before it lists, fetches, enriches or inserts any commit:
\* no get_user_id call comes after a call of commit work, and a run that
\* failed on identity resolution left the Commit Store and the README cache
\* as they were when it started.
C29_IdentityBeforeCommits ==
    \A r \in Runs :
        LET s == run[r]
        IN  /\ \A i, j \in 1..Len(s.calls) :
                   (s.calls[i][1] \in CommitWork /\ s.calls[j][1] = "get_user_id") => j < i
            /\ s.failed = "get_user_id" =>
                   /\ s.inserted = <<>>
                   /\ commits_coll = s.store0
                   /\ readmes_coll = s.readmes0

(***************************************************************************)
(* Non-interference of concurrent runs over disjoint keys                   *)
(***************************************************************************)
\* The repository key and the commit listing of the one repository GitHub
\* reports for a user.
KeyOfUser(u) == gh_contributions[u][1].key
ListingOfUser(u) == gh_commits[KeyOfUser(u)]

RECURSIVE FirstOccurrences(_, _)
\* The oids of a listing in the order of their first occurrence: what a run
\* over an empty store, alone, inserts when every call succeeds.
FirstOccurrences(cs, seen) ==
    IF cs = <<>> THEN <<>>
    ELSE IF Head(cs) \in seen THEN FirstOccurrences(Tail(cs), seen)
         ELSE <<Head(cs)>> \o FirstOccurrences(Tail(cs), seen \cup {Head(cs)})

IsPrefixOf(a, b) == Len(a) <= Len(b) /\ SubSeq(b, 1, Len(a)) = a

\* The shas of the stored documents of one repository, in store order.
ShasOfRepo(k) ==
    LET InRepo(d) == <<d.org, d.repo>> = k
        docs == SelectSeq(commits_coll, InRepo)
    IN  [i \in 1..Len(docs) |-> docs[i].sha]

\* Both slots hold a run, for two different users.
DisjointRuns ==
    /\ \A r \in Runs : run[r].pc # "idle"
    /\ run[1].user # run[2].user

\* C23: concurrent runs over disjoint keys do not interfere.  At every point
\* of every interleaving of two runs whose repositories and commit oids are
\* disjoint, the Commit Store holds, per repository, exactly the documents the
\* repository's own run inserted, which are the commits a run alone over the
\* same listing inserts (each listed oid once, in listing order); the README
\* cache holds at most one document per repository, and none for a repository
\* whose own run has not accessed its README; and a successful run returns the
\* response it returns alone.
C23_DisjointRunsDoNotInterfere ==
    DisjointRuns =>
        /\ Len(commits_coll) = Len(run[1].inserted) + Len(run[2].inserted)
        /\ \A d \in readmes_coll : \E r \in Runs : <<d.owner, d.repo>> = KeyOfUser(run[r].user)
        /\ \A r \in Runs :
              LET s == run[r]
                  k == KeyOfUser(s.user)
                  alone == FirstOccurrences(ListingOfUser(s.user), {})
              IN  /\ ShasOfRepo(k) = s.inserted
                  /\ IsPrefixOf(s.inserted, alone)
                  /\ Cardinality(CachedReadme(readmes_coll, k[1], k[2])) <= 1
                  /\ (\A i \in 1..Len(s.calls) : s.calls[i][1] # "get_readme")
                         => CachedReadme(readmes_coll, k[1], k[2]) = {}
                  /\ s.outcome = "ok" =>
                         /\ s.inserted = alone
                         /\ s.response =
                                [total_expected |-> 1,
                                 total_processed |-> Len(ListingOfUser(s.user)),
                                 repositories |->
                                     <<<<k[1], "/", k[2]>>>>]

\* Two runs for different users, both started on the empty store, both
\* successful, each having inserted its commit and cached its README.
C23_Witness ==
    /\ DisjointRuns
    /\ \A r \in Runs :
          /\ run[r].outcome = "ok"
          /\ run[r].store0 = <<>>
          /\ Len(run[r].inserted) = 1
    /\ Len(commits_coll) = 2
    /\ commits_coll[1].sha # commits_coll[2].sha
    /\ Cardinality(readmes_coll) = 2

(***************************************************************************)
(* The README cache                                                        *)
(***************************************************************************)
\* The content of the latest cache_readme call for key k among the first n
\* calls, NONE when there is none.
LastCached(k, n) ==
    LET writes == { i \in 1..n : readme_calls[i][1] = "cache_readme"
                                  /\ readme_calls[i][2] = k }
    IN  IF writes = {} THEN NONE
        ELSE readme_calls[CHOOSE i \in writes : \A j \in writes : j <= i][3]

\* C30: the README cache is an upsert per key.  After any sequence of
\* get_readme, get_cached_readme and cache_readme operations the cache holds
\* at most one ReadmeDocument per (owner, repo), that document holds the
\* content of the latest cache_readme for the key, and every
\* get_cached_readme returned the content of the latest cache_readme for its
\* key before it (nothing when there was none).
C30_ReadmeCacheUpsert ==
    /\ \A k \in RepoKeys :
          /\ Cardinality(CachedReadme(readmes_coll, k[1], k[2])) <= 1
          /\ GetCachedReadmeResults(readmes_coll, k) = {LastCached(k, Len(readme_calls))}
    /\ \A i \in 1..Len(readme_calls) :
          readme_calls[i][1] = "get_cached_readme" =>
              readme_calls[i][3] = LastCached(readme_calls[i][2], i - 1)

\* A key was cached with one content, overwritten with another, and then
\* read back; the other key was never written.
C30_Witness ==
    /\ Len(readme_calls) = 3
    /\ readme_calls[1][1] = "cache_readme"
    /\ readme_calls[2][1] = "cache_readme"
    /\ readme_calls[1][2] = readme_calls[2][2]
    /\ readme_calls[1][3] # readme_calls[2][3]
    /\ readme_calls[3] = <<"get_cached_readme", readme_calls[2][2], readme_calls[2][3]>>
    /\ Cardinality(readmes_coll) = 1

(***************************************************************************)
(* The embedding cache                                                     *)
(***************************************************************************)
\* The vector of the latest cache_embedding call for key k among the first n
\* calls, NONE when there is none.
LastCachedEmbedding(k, n) ==
    LET writes == { i \in 1..n : embedding_calls[i][1] = "cache_embedding"
                                  /\ embedding_calls[i][2] = k }
    IN  IF writes = {} THEN NONE
        ELSE embedding_calls[CHOOSE i \in writes : \A j \in writes : j <= i][3]

\* C31: the embedding cache holds one entry per key.  After any sequence of
\* cache_embedding and get_cached_embedding calls the cache holds at most one
\* entry per (model, input), also after two cache_embedding calls with the
\* same key, and every get_cached_embedding returned the vector cached for
\* its key (nothing when none was cached).
C31_EmbeddingCacheOnePerKey ==
    /\ \A k \in EmbeddingKeys : Cardinality(CachedEmbeddings(embeddings_coll, k)) <= 1
    /\ \A i \in 1..Len(embedding_calls) :
          embedding_calls[i][1] = "get_cached_embedding" =>
              embedding_calls[i][3] = LastCachedEmbedding(embedding_calls[i][2], i - 1)

(***************************************************************************)
(* Termination of a run                                                    *)
(***************************************************************************)
\* The calls of a run's log with the given name.
CallsNamed(s, name) == { i \in 1..Len(s.calls) : s.calls[i][1] = name }

\* The calls issued for the commit whose existence check is call k: those
\* after k and before the next existence check or listing.
CallsOfCommit(s, k) ==
    { j \in (k + 1)..Len(s.calls) :
        \A i \in (k + 1)..j : s.calls[i][1] \notin {"commit_exists", "get_commits",
                                                    "get_user_id"} }

\* The existence checks issued for the listing fetched by call g, in order.
ChecksOfListing(s, g) ==
    LET IsCheck(c) == c[1] = "commit_exists"
        later == { i \in (g + 1)..Len(s.calls) : s.calls[i][1] = "get_commits" }
        last == IF later = {} THEN Len(s.calls)
                ELSE (CHOOSE i \in later : \A j \in later : i <= j) - 1
        checks == SelectSeq(SubSeq(s.calls, g + 1, last), IsCheck)
    IN  [i \in 1..Len(checks) |-> checks[i][2]]

\* Each repository is visited at most once, each commit of each listing at
\* most once, and each call for a commit is issued at most once.
VisitsAtMostOnce(s) ==
    /\ Cardinality(CallsNamed(s, "get_user_contributed_repos")) <= 1
    /\ Cardinality(CallsNamed(s, "get_user_id")) <= Len(s.repos)
    /\ \A i, j \in CallsNamed(s, "get_commits") : s.calls[i][2] = s.calls[j][2] => i = j
    /\ \A g \in CallsNamed(s, "get_commits") :
          gh_commits[s.calls[g][2]] # UNSET =>
              IsPrefixOf(ChecksOfListing(s, g), gh_commits[s.calls[g][2]])
    /\ \A k \in CallsNamed(s, "commit_exists") :
          \A i, j \in CallsOfCommit(s, k) : s.calls[i][1] = s.calls[j][1] => i = j

\* A failed call is the last call of its run.
NoRetry(s) ==
    s.failed # NONE =>
        /\ s.pc = "done"
        /\ LastCall(s)[1] = s.failed
        /\ Cardinality(CallsOfCommit(s, CommitStart(s, Len(s.calls)))
                       \cap CallsNamed(s, s.failed)) <= 1

\* The run ended with its response or with the error response.
EndedWithResponseOrError(s) ==
    \/ /\ s.outcome = "ok"
       /\ s.response = [total_expected |-> s.total_expected,
                        total_processed |-> s.total_processed,
                        repositories |-> s.repositories]
    \/ /\ s.outcome = "error"
       /\ s.response = ErrorResponse

\* Every started run reaches its end.
StartedRunsEnd == \A r \in Runs : (run[r].pc # "idle") ~> (run[r].pc = "done")

OidsIn(cs) == { cs[i] : i \in 1..Len(cs) }

\* The positions, in discovery order, of the repositories the run has reached
\* whose listing holds the oid.
ReposListing(s, o) ==
    { j \in 1..Len(s.repos) :
        /\ j <= s.ri \/ s.pc = "done"
        /\ gh_commits[<<s.repos[j].owner, s.repos[j].name>>] # UNSET
        /\ o \in OidsIn(gh_commits[<<s.repos[j].owner, s.repos[j].name>>]) }

\* The stored documents with the given sha.
DocsWithSha(o) == { i \in 1..Len(commits_coll) : commits_coll[i].sha = o }

\* C33: one document per sha within a run.  With one run at a time, the
\* store never holds two documents with one sha, also when an oid is listed
\* by two repositories or twice by one: an existence check for an oid that is
\* stored is followed by no patch fetch, a run inserts no oid twice, and the
\* document of an oid the run inserted names the first repository, in
\* discovery order, that lists the oid.
C33_OneDocumentPerShaInRun ==
    /\ \A o \in Oids : Cardinality(DocsWithSha(o)) <= 1
    /\ \A r \in Runs :
          LET s == run[r]
          IN  /\ \A i, j \in 1..Len(s.inserted) : s.inserted[i] = s.inserted[j] => i = j
              /\ \A j \in 1..(Len(s.calls) - 1) :
                    (s.calls[j][1] = "commit_exists" /\ StoredBefore(s, s.calls[j][2], j))
                        => s.calls[j + 1][1] # "get_commit_patch"
              /\ \A i \in 1..Len(s.inserted) :
                    LET o == s.inserted[i]
                        listing == ReposListing(s, o)
                        first == CHOOSE j \in listing : \A k \in listing : j <= k
                    IN  /\ listing # {}
                        /\ \E d \in DocsWithSha(o) :
                              /\ commits_coll[d].org = s.repos[first].owner
                              /\ commits_coll[d].repo = s.repos[first].name

\* A successful run over two repositories that both list one oid, the first
\* of them twice: the store holds the oid once, under the first repository.
C33_Witness ==
    \E r \in Runs :
        LET s == run[r]
        IN  /\ s.outcome = "ok"
            /\ s.store0 = <<>>
            /\ Len(s.repos) = 2
            /\ gh_commits[<<s.repos[1].owner, s.repos[1].name>>] = <<"A", "A">>
            /\ "A" \in OidsIn(gh_commits[<<s.repos[2].owner, s.repos[2].name>>])
            /\ Cardinality(DocsWithSha("A")) = 1
            /\ s.inserted[1] = "A"
            /\ commits_coll[1].repo = s.repos[1].name
            /\ s.repos[1].name # s.repos[2].name
            /\ Cardinality(CallsNamed(s, "commit_exists")) >= 3

(***************************************************************************)
(* README accesses of a run                                                *)
(***************************************************************************)
\* The README accesses in a run's log.
ReadmeCalls(s) == CallsNamed(s, "get_readme")

\* A README was cached for key k when the run issued call j: the cache held
\* one when the run started, or an earlier access of the run cached one.
ReadmeCachedBefore(s, k, j) ==
    \/ \E d \in s.readmes0 : <<d.owner, d.repo>> = k
    \/ \E i \in ReadmeCalls(s) : i < j /\ s.calls[i][2] = k /\ s.calls[i][3] = "fetch_cached"

\* C34: a cached README is never fetched again, an absent one always is.
\* With one run at a time, a README access for a key that has a cached README
\* issues no fetch and yields the cached content, and the cached document
\* stays as it was; an access for a key without a cached README goes to
\* GitHub, and an access that found no README leaves the cache without a
\* document for the key, so that the next enriched commit of the repository
\* fetches again.
C34_CachedNeverRefetched ==
    \A r \in Runs :
        LET s == run[r]
        IN  /\ \A d \in s.readmes0 : d \in readmes_coll
            /\ \A j \in ReadmeCalls(s) :
                  LET k == s.calls[j][2]
                  IN  /\ ReadmeCachedBefore(s, k, j) => s.calls[j][3] \in {"hit", "lookup_err"}
                      /\ ~ReadmeCachedBefore(s, k, j) =>
                              s.calls[j][3] \in {"fetch_none", "fetch_err", "fetch_cached",
                                                 "lookup_err"}
                      /\ (s.calls[j][3] = "fetch_none" /\ j = Len(s.calls)) =>
                              \A d \in readmes_coll : <<d.owner, d.repo>> # k
            /\ (s.pc = "summarize_readme" /\ s.readme_result = "hit") =>
                  \E d \in readmes_coll :
                      /\ <<d.owner, d.repo>> = <<Repo(s).owner, Repo(s).name>>
                      /\ d.content = s.readme_content

\* A run found the README of one repository in the cache, where an earlier
\* run had put it, and issued no fetch; for a commit of a second repository,
\* which has no README, it fetched and cached nothing.
C34_Witness ==
    \E r \in Runs :
        LET s == run[r]
        IN  \E h, n \in ReadmeCalls(s) :
                /\ s.calls[h][3] = "hit"
                /\ \E d \in s.readmes0 : <<d.owner, d.repo>> = s.calls[h][2]
                /\ s.calls[n][3] = "fetch_none"
                /\ s.calls[n][2] # s.calls[h][2]
                /\ \A d \in readmes_coll : <<d.owner, d.repo>> # s.calls[n][2]
                /\ s.outcome = "ok"

(***************************************************************************)
(* Statuses of the diff request                                            *)
(***************************************************************************)
\* The stored documents of an oid all hold the body GitHub answered with.
StoredWithBody(o) ==
    /\ DocsWithSha(o) # {}
    /\ \A d \in DocsWithSha(o) : commits_coll[d].patch = gh_patch[o][1]

====
